---------------------------- MODULE Spec2Model ----------------------------
(***************************************************************************)
(* A model of src/src/primitives/checksum.rs: the BCH checksum engine of   *)
(* rust-bech32 (trait Checksum and its sanity_check, Engine, the packed    *)
(* field vectors u32/u64/u128/PackedNull, and HrpFe32Iter).                *)
(*                                                                         *)
(* A packed integer is modelled as the set of the positions of its 1 bits  *)
(* (bit 0 is the least significant one), so that a 128-bit value costs no  *)
(* more than a 32-bit one: xor is the symmetric difference, & the          *)
(* intersection, | the union, and a shift moves every position.            *)
(***************************************************************************)
EXTENDS Integers, Sequences, FiniteSets, TLC

VARIABLES
    \* the packed-vector primitive on its own (SpecPacked)
    arg, res,
    \* the checksum engine (Spec) and the second engine beside it (SpecPair)
    Ck, debug_assertions, residue, xn, call, fed, ncalls, violated, panicked,
    verifier, twin, altered,
    \* Checksum::sanity_check on a configuration (SpecSanity)
    sck, flipped, basePassed, checked,
    \* HrpFe32Iter (SpecHrp)
    hrp, high_iter, low_iter, out, nones

packedVars == <<arg, res>>
engineVars == <<Ck, debug_assertions, residue, xn, call, fed, ncalls, violated,
                panicked, verifier>>
pairVars   == <<twin, altered>>
sanityVars == <<sck, flipped, basePassed, checked>>
hrpVars    == <<hrp, high_iter, low_iter, out, nones>>
vars == <<packedVars, engineVars, pairVars, sanityVars, hrpVars>>

---------------------------------------------------------------------------
(* Bit vectors.                                                            *)

\* The bits of a u8 (a field element, a literal such as 0x1f or 41).
FromU8(n) == {i \in 0..7 : (n \div (2^i)) % 2 = 1}

\* `x as u8`: the low 8 bits of a packed integer, as a number.
AsU8(v) ==
    LET bit(i) == IF i \in v THEN 2^i ELSE 0
    IN  bit(0) + bit(1) + bit(2) + bit(3) + bit(4) + bit(5) + bit(6) + bit(7)

BitXor(a, b) == (a \ b) \cup (b \ a)
BitAnd(a, b) == a \cap b
BitOr(a, b)  == a \cup b
\* !x on a type of `bits` bits.
BitNot(a, bits) == (0..(bits - 1)) \ a
\* x << k and x >> k on a type of `bits` bits: the bits shifted out are lost.
Shl(a, k, bits) == {b + k : b \in a} \cap (0..(bits - 1))
Shr(a, k) == {b - k : b \in {x \in a : x >= k}}

\* u8 ^ u8 and u8 & u8.
XorU8(a, b) == AsU8(BitXor(FromU8(a), FromU8(b)))
AndU8(a, b) == AsU8(BitAnd(FromU8(a), FromU8(b)))

---------------------------------------------------------------------------
(* PackedFe32 and its implementations.                                     *)

\* The types that implement PackedFe32.
IntTypes == {"u32", "u64", "u128"}
PackedTypes == IntTypes \cup {"PackedNull"}

\* mem::size_of::<Self>(): PackedNull is a unit struct.
size_of(ty) ==
    CASE ty = "u32" -> 4
      [] ty = "u64" -> 8
      [] ty = "u128" -> 16
      [] ty = "PackedNull" -> 0

\* The number of bits of the type.
BITS(ty) == size_of(ty) * 8

\* PackedFe32::WIDTH.
WIDTH(ty) == (size_of(ty) * 8) \div 5

\* The one value of the unit struct PackedNull.
PackedNull == {}

\* PackedFe32::ONE.
ONE(ty) == IF ty = "PackedNull" THEN PackedNull ELSE FromU8(1)

\* The amount a shift by k moves in a build without overflow checks: usize
\* arithmetic wraps modulo 2^64 and the amount is masked to the type's bits,
\* which divide 2^64, so the two reductions are one.
ShAmt(k, ty) == k % BITS(ty)

\* debug_assert!(n < Self::WIDTH) of unpack.
unpack_pre(ty, n) == ty = "PackedNull" \/ (0 <= n /\ n < WIDTH(ty))

unpack(ty, v, n) ==
    IF ty = "PackedNull" THEN 0
    ELSE AndU8(AsU8(Shr(v, ShAmt(n * 5, ty))), 31)

\* The three debug_assert!s of mul_by_x_then_add.
mul_by_x_then_add_pre(ty, degree, add) ==
    ty = "PackedNull" \/ (degree > 0 /\ degree <= WIDTH(ty) /\ add < 32)

\* A mutant: the overflowing coefficient is returned but not cleared.
mul_by_x_then_add_noclear(ty, v, degree, add) ==
    IF ty = "PackedNull" THEN [self |-> v, ret |-> 0]
    ELSE [self |-> BitOr(Shl(v, 5, BITS(ty)), FromU8(add)),
          ret |-> unpack(ty, v, degree - 1)]

\* A mutant: the null vector takes the element added.
mul_by_x_then_add_null_adds(ty, v, degree, add) ==
    LET ret == IF ty = "PackedNull" THEN 0 ELSE unpack(ty, v, degree - 1)
        s1 == IF ty = "PackedNull" THEN v
              ELSE Shl(BitAnd(v, BitNot(Shl(FromU8(31), ShAmt((degree - 1) * 5, ty),
                                            BITS(ty)), BITS(ty))), 5, BITS(ty))
    IN  [self |-> BitOr(s1, FromU8(add)), ret |-> ret]

\* mul_by_x_then_add: the new value of self and the value returned.
mul_by_x_then_add(ty, v, degree, add) ==
    IF ty = "PackedNull" THEN [self |-> v, ret |-> 0]
    ELSE LET ret == unpack(ty, v, degree - 1)
             s1 == BitAnd(v, BitNot(Shl(FromU8(31), ShAmt((degree - 1) * 5, ty),
                                        BITS(ty)), BITS(ty)))
             s2 == Shl(s1, 5, BITS(ty))
             s3 == BitOr(s2, FromU8(add))
         IN  [self |-> s3, ret |-> ret]

---------------------------------------------------------------------------
(* SpecPacked: mul_by_x_then_add applied to a packed integer.              *)

\* The sampled vectors: sample k of a type, for k in 0..MaxSample.
MaxSample == 5

SampleVec(k, ty) ==
    CASE k = 0 -> ONE(ty)
      [] k = 1 -> 0..(BITS(ty) - 1)
      [] k = 2 -> {}
      [] k = 3 -> {BITS(ty) - 1, BITS(ty) - 6}
      [] OTHER -> {b \in 0..(BITS(ty) - 1) : ((b + 1) * (2 * k + 1)) % 7 < 3}

PackedUnused == arg = [ty |-> "u32", v |-> {}, degree |-> 1, add |-> 0]
                /\ res = [called |-> FALSE, self |-> {}, ret |-> 0]

InitPacked ==
    /\ \E ty \in IntTypes, k \in 0..MaxSample, add \in 0..31 :
          \E degree \in 1..WIDTH(ty) :
             arg = [ty |-> ty, v |-> SampleVec(k, ty), degree |-> degree, add |-> add]
    /\ res = [called |-> FALSE, self |-> {}, ret |-> 0]

CallMulByXThenAdd ==
    /\ ~res.called
    /\ LET m == mul_by_x_then_add(arg.ty, arg.v, arg.degree, arg.add)
       IN  res' = [called |-> TRUE, self |-> m.self, ret |-> m.ret]
    /\ UNCHANGED <<arg, engineVars, pairVars, sanityVars, hrpVars>>

---------------------------------------------------------------------------
(* The field GF(32) = GF(2)[x]/(x^5 + x^3 + 1), for stating what the       *)
(* engine computes.                                                        *)

\* The product of two polynomials over GF(2), as the set of its exponents.
ClMul(a, b) ==
    {k \in 0..14 :
        Cardinality({i \in FromU8(a) : (k - i) \in FromU8(b)}) % 2 = 1}

\* x^k = x^(k-2) + x^(k-5) for k >= 5.
ReduceAt(p, k) == IF k \in p THEN BitXor(p, {k, k - 2, k - 5}) ELSE p

Gf32Mul(a, b) ==
    AsU8(ReduceAt(ReduceAt(ReduceAt(ReduceAt(ClMul(a, b), 8), 7), 6), 5))

---------------------------------------------------------------------------
(* Checksum: a configuration is a record of the trait's items,             *)
(* [ty: MidstateRepr, CHECKSUM_LENGTH, GENERATOR_SH, TARGET_RESIDUE].      *)

\* The packed integer whose slot j-1 holds coefs[j].
Pack(coefs) ==
    {b \in 0..(5 * Len(coefs) - 1) : (b % 5) \in FromU8(coefs[(b \div 5) + 1])}

\* The five shifts of a generator given by its coefficients.
Shifts(coefs) ==
    [i \in 1..5 |-> Pack([j \in DOMAIN coefs |-> Gf32Mul(coefs[j], 2^(i - 1))])]

MkCk(ty, len, gen, target) ==
    [ty |-> ty, CHECKSUM_LENGTH |-> len, GENERATOR_SH |-> gen,
     TARGET_RESIDUE |-> target]

\* A run of n coefficients with no pattern to it.
Coefs(n, a, b) == [j \in 1..n |-> (a * j + b) % 32]

\* A mutant: the last shift of the generator is not compared.
sanity_check_short(C) ==
    /\ C.CHECKSUM_LENGTH <= WIDTH(C.ty)
    /\ \A i \in 1..3 : \A j \in 0..(WIDTH(C.ty) - 1) :
          LET last == unpack(C.ty, C.GENERATOR_SH[i], j)
              curr == unpack(C.ty, C.GENERATOR_SH[i + 1], j)
          IN  curr = XorU8((last * 2) % 256,
                           IF AndU8(last, 16) = 16 THEN 41 ELSE 0)

\* Checksum::sanity_check: TRUE when no assertion fires. GENERATOR_SH[i] of
\* the code is GENERATOR_SH[i + 1] here.
sanity_check(C) ==
    /\ C.CHECKSUM_LENGTH <= WIDTH(C.ty)
    /\ \A i \in 1..4 : \A j \in 0..(WIDTH(C.ty) - 1) :
          LET last == unpack(C.ty, C.GENERATOR_SH[i], j)
              curr == unpack(C.ty, C.GENERATOR_SH[i + 1], j)
          IN  curr = XorU8((last * 2) % 256,
                           IF AndU8(last, 16) = 16 THEN 41 ELSE 0)

\* The generator of bech32 and of bech32m, and their target residues.
Bech32Gen == <<Pack(<<18, 29, 21, 20, 22, 29>>), Pack(<<13, 19, 3, 1, 5, 19>>),
               Pack(<<26, 15, 6, 2, 10, 15>>), Pack(<<29, 30, 12, 4, 20, 30>>),
               Pack(<<19, 21, 24, 8, 1, 21>>)>>
Bech32mTarget == Pack(<<3, 5, 12, 16, 28, 21>>)

\* The configurations the engine is run under: sound ones of every width,
\* ones that sanity_check accepts although a table or the target has bits
\* above the checksum, and ones it rejects.
Configs ==
    { MkCk("u32", 6, Bech32Gen, FromU8(1)),
      MkCk("u32", 6, Bech32Gen, Bech32mTarget),
      MkCk("u32", 1, Shifts(<<19>>), Pack(<<7>>)),
      MkCk("u32", 2, Shifts(<<7, 26>>), Pack(<<1, 0>>)),
      MkCk("u32", 2, Shifts(<<0, 5>>), Pack(<<4, 9>>)),
      MkCk("u64", 3, Shifts(<<29, 3, 17>>), Pack(<<31, 0, 9>>)),
      MkCk("u64", 12, Shifts(Coefs(12, 7, 3)), Pack(Coefs(12, 5, 1))),
      MkCk("u128", 2, Shifts(<<7, 26>>), Pack(<<30, 2>>)),
      MkCk("u128", 25, Shifts(Coefs(25, 11, 6)), Pack(Coefs(25, 3, 2))),
      \* accepted by sanity_check, with bits above the checksum
      MkCk("u32", 1, Shifts(<<19, 4>>), Pack(<<7>>)),
      MkCk("u32", 1, Shifts(<<19>>), Pack(<<7, 1>>)),
      MkCk("u32", 6, [Bech32Gen EXCEPT ![1] = @ \cup {31}], FromU8(1)),
      \* accepted by sanity_check, with no checksum at all
      MkCk("u32", 0, Shifts(<<>>), {}),
      MkCk("u64", 0, Shifts(<<9, 9>>), {}),
      MkCk("PackedNull", 0, [i \in 1..5 |-> {}], {}),
      \* rejected by sanity_check
      MkCk("u32", 7, Shifts(Coefs(6, 7, 3)), FromU8(1)),
      MkCk("u32", 2, <<Pack(<<7, 26>>), Pack(<<1, 1>>), Pack(<<2, 2>>),
                       Pack(<<4, 4>>), Pack(<<8, 8>>)>>, Pack(<<1, 0>>)) }

---------------------------------------------------------------------------
(* HrpFe32Iter. An Option is a sequence of no or one element; a            *)
(* LowercaseByteIter is the sequence of the bytes it has yet to yield.     *)

\* Fe32::Q, the separator.
Fe32_Q == 0

\* Hrp::lowercase_byte_iter.
lowercase_byte_iter(h) ==
    [i \in 1..Len(h) |-> IF h[i] \in 65..90 THEN h[i] + 32 ELSE h[i]]

\* LowercaseByteIter::size_hint: the exact number of bytes left.
byte_iter_size_hint(it) == <<Len(it), <<Len(it)>>>>

\* HrpFe32Iter::new.
HrpFe32Iter_new(h) ==
    [high_iter |-> <<lowercase_byte_iter(h)>>,
     low_iter |-> <<lowercase_byte_iter(h)>>]

\* A mutant: the separator is forgotten when the high bits run out.
next_no_separator(it) ==
    IF it.high_iter # <<>> /\ it.high_iter[1] # <<>>
    THEN [item |-> <<Head(it.high_iter[1]) \div 32>>,
          high_iter |-> <<Tail(it.high_iter[1])>>, low_iter |-> it.low_iter]
    ELSE IF it.low_iter # <<>> /\ it.low_iter[1] # <<>>
    THEN [item |-> <<Head(it.low_iter[1]) % 32>>,
          high_iter |-> <<>>, low_iter |-> <<Tail(it.low_iter[1])>>]
    ELSE [item |-> <<>>, high_iter |-> <<>>, low_iter |-> <<>>]

\* HrpFe32Iter::next: the item returned and the iterator's new fields.
next(it) ==
    IF it.high_iter # <<>>
    THEN IF it.high_iter[1] # <<>>
         THEN [item |-> <<Head(it.high_iter[1]) \div (2^5)>>,
               high_iter |-> <<Tail(it.high_iter[1])>>,
               low_iter |-> it.low_iter]
         ELSE [item |-> <<Fe32_Q>>, high_iter |-> <<>>, low_iter |-> it.low_iter]
    ELSE IF it.low_iter # <<>>
    THEN IF it.low_iter[1] # <<>>
         THEN [item |-> <<AndU8(Head(it.low_iter[1]), 31)>>,
               high_iter |-> it.high_iter,
               low_iter |-> <<Tail(it.low_iter[1])>>]
         ELSE [item |-> <<>>, high_iter |-> it.high_iter, low_iter |-> <<>>]
    ELSE [item |-> <<>>, high_iter |-> it.high_iter, low_iter |-> it.low_iter]

\* HrpFe32Iter::size_hint, as <<min, max>> with max an Option.
size_hint(it) ==
    LET high == IF it.high_iter # <<>>
                THEN LET sh == byte_iter_size_hint(it.high_iter[1])
                     IN  <<sh[1] + 1, [k \in DOMAIN sh[2] |-> sh[2][k] + 1]>>
                ELSE <<0, <<0>>>>
        low == IF it.low_iter # <<>>
               THEN byte_iter_size_hint(it.low_iter[1])
               ELSE <<0, <<0>>>>
        min == high[1] + 1 + low[1]
        max == IF high[2] # <<>> /\ low[2] # <<>>
               THEN <<high[2][1] + 1 + low[2][1]>>
               ELSE <<>>
    IN  <<min, max>>

\* `for fe in HrpFe32Iter`: the items up to the first None.
RECURSIVE drain(_)
drain(it) ==
    LET n == next(it)
    IN  IF n.item = <<>> THEN <<>>
        ELSE <<n.item[1]>> \o drain([high_iter |-> n.high_iter,
                                     low_iter |-> n.low_iter])

---------------------------------------------------------------------------
(* Engine.                                                                 *)

\* BitXor for the packed types: PackedNull ^ PackedNull is PackedNull.
bitxor(ty, a, b) == IF ty = "PackedNull" THEN PackedNull ELSE BitXor(a, b)

\* The loop `for i in 0..5` of input_fe, from i on.
RECURSIVE xor_generators(_, _, _, _)
xor_generators(C, r, x, i) ==
    IF i >= 5 THEN r
    ELSE xor_generators(C,
                        IF AndU8(x, 2^i) # 0
                        THEN bitxor(C.ty, r, C.GENERATOR_SH[i + 1])
                        ELSE r,
                        x, i + 1)

\* A mutant: the loop stops one generator short.
input_fe_four(C, r, e) ==
    LET m == mul_by_x_then_add(C.ty, r, C.CHECKSUM_LENGTH, e)
    IN  [residue |-> xor_generators(C, m.self, m.ret % 16, 0), xn |-> m.ret]

\* A mutant: the new element is not added.
input_fe_noadd(C, r, e) ==
    LET m == mul_by_x_then_add(C.ty, r, C.CHECKSUM_LENGTH, 0)
    IN  [residue |-> xor_generators(C, m.self, m.ret, 0), xn |-> m.ret]

\* Engine::input_fe on the residue r: the new residue, and xn.
input_fe(C, r, e) ==
    LET m == mul_by_x_then_add(C.ty, r, C.CHECKSUM_LENGTH, e)
    IN  [residue |-> xor_generators(C, m.self, m.ret, 0), xn |-> m.ret]

\* Whether the debug assertions that input_fe reaches hold.
input_fe_pre(C, e) ==
    /\ mul_by_x_then_add_pre(C.ty, C.CHECKSUM_LENGTH, e)
    /\ unpack_pre(C.ty, C.CHECKSUM_LENGTH - 1)

\* Engine::new: the engine is [residue, xn, violated, panicked]; violated
\* records that a call broke a precondition of the packed vector, panicked
\* that a debug assertion stopped the engine's thread.
new(C) == [residue |-> ONE(C.ty), xn |-> 0, violated |-> FALSE, panicked |-> FALSE]

\* One call of input_fe in a build with (dbg) or without debug assertions.
step_fe(C, dbg, S, e) ==
    IF S.panicked THEN S
    ELSE IF dbg /\ ~input_fe_pre(C, e)
    THEN [S EXCEPT !.violated = TRUE, !.panicked = TRUE]
    ELSE LET r == input_fe(C, S.residue, e)
         IN  [residue |-> r.residue, xn |-> r.xn,
              violated |-> S.violated \/ ~input_fe_pre(C, e),
              panicked |-> FALSE]

\* input_fe for each element of fes in turn.
RECURSIVE feed(_, _, _, _)
feed(C, dbg, S, fes) ==
    IF fes = <<>> THEN S
    ELSE feed(C, dbg, step_fe(C, dbg, S, Head(fes)), Tail(fes))

\* Engine::input_hrp.
input_hrp(C, dbg, S, h) == feed(C, dbg, S, drain(HrpFe32Iter_new(h)))

\* A mutant: the target residue is unpacked from slot 0 up.
target_index_ascending(C, i) == i

\* A mutant: the index is one too high.
target_index_off_by_one(C, i) == C.CHECKSUM_LENGTH - i

\* The slot input_target_residue unpacks in round i.
target_index(C, i) == C.CHECKSUM_LENGTH - i - 1

\* The loop `for i in 0..CHECKSUM_LENGTH` of input_target_residue, from i on.
RECURSIVE target_loop(_, _, _, _)
target_loop(C, dbg, S, i) ==
    IF i >= C.CHECKSUM_LENGTH \/ S.panicked THEN S
    ELSE LET n == target_index(C, i)
         IN  IF dbg /\ ~unpack_pre(C.ty, n)
             THEN [S EXCEPT !.violated = TRUE, !.panicked = TRUE]
             ELSE target_loop(C, dbg,
                              step_fe(C, dbg,
                                      [S EXCEPT !.violated = @ \/ ~unpack_pre(C.ty, n)],
                                      unpack(C.ty, C.TARGET_RESIDUE, n)),
                              i + 1)

\* Engine::input_target_residue.
input_target_residue(C, dbg, S) == target_loop(C, dbg, S, 0)

\* The elements input_target_residue feeds.
target_symbols(C) ==
    [i \in 1..C.CHECKSUM_LENGTH |-> unpack(C.ty, C.TARGET_RESIDUE, target_index(C, i - 1))]

\* The checksum symbols of a residue r, highest slot first.
checksum_symbols(C, r) ==
    [i \in 1..C.CHECKSUM_LENGTH |-> unpack(C.ty, r, C.CHECKSUM_LENGTH - i)]

---------------------------------------------------------------------------
(* Spec: an engine under a configuration, and the calls made on it.        *)

\* The number of calls made on an engine.
MaxCalls == 3

\* The field elements and the prefix ("B1") fed.
FeInputs == {0, 19, 31}
HrpInputs == {<<66, 49>>}

Engine == [residue |-> residue, xn |-> xn, violated |-> violated,
           panicked |-> panicked]

NoVerifier == [done |-> FALSE, residue |-> {}]

InitEngineIn(configs, builds) ==
    /\ Ck \in configs
    /\ debug_assertions \in builds
    /\ residue = new(Ck).residue
    /\ xn = new(Ck).xn
    /\ violated = new(Ck).violated
    /\ panicked = new(Ck).panicked
    /\ call = [op |-> "new", fe |-> 0]
    /\ fed = <<>>
    /\ ncalls = 0
    /\ verifier = NoVerifier

\* The engine after a call: S is its new state, fes what the call fed.
Called(S, op, e, fes) ==
    /\ residue' = S.residue
    /\ xn' = S.xn
    /\ violated' = S.violated
    /\ panicked' = S.panicked
    /\ call' = [op |-> op, fe |-> e]
    /\ fed' = IF S.panicked THEN fed ELSE fed \o fes
    /\ ncalls' = ncalls + 1
    /\ verifier' = NoVerifier
    /\ UNCHANGED <<Ck, debug_assertions>>

CanCall == ncalls < MaxCalls /\ ~panicked

InputFe(e) ==
    /\ CanCall
    /\ Called(step_fe(Ck, debug_assertions, Engine, e), "input_fe", e, <<e>>)
    /\ UNCHANGED <<packedVars, pairVars, sanityVars, hrpVars>>

InputHrp(h) ==
    /\ CanCall
    /\ Called(input_hrp(Ck, debug_assertions, Engine, h), "input_hrp", 0,
              drain(HrpFe32Iter_new(h)))
    /\ UNCHANGED <<packedVars, pairVars, sanityVars, hrpVars>>

InputTargetResidue ==
    /\ CanCall
    /\ Called(input_target_residue(Ck, debug_assertions, Engine),
              "input_target_residue", 0, target_symbols(Ck))
    /\ UNCHANGED <<packedVars, pairVars, sanityVars, hrpVars>>

\* The round trip: the caller reads the checksum off the residue that
\* input_target_residue left, and feeds a fresh engine the same elements
\* followed by the checksum.
Verify ==
    /\ call.op = "input_target_residue"
    /\ ~panicked
    /\ ~verifier.done
    /\ LET M == SubSeq(fed, 1, Len(fed) - Ck.CHECKSUM_LENGTH)
           V == feed(Ck, debug_assertions, new(Ck),
                     M \o checksum_symbols(Ck, residue))
       IN  verifier' = [done |-> TRUE, residue |-> V.residue]
    /\ UNCHANGED <<Ck, debug_assertions, residue, xn, call, fed, ncalls,
                   violated, panicked>>
    /\ UNCHANGED <<packedVars, pairVars, sanityVars, hrpVars>>

---------------------------------------------------------------------------
(* SpecPair: two engines fed the same elements but for one.                *)

\* The number of elements fed to the two engines.
MaxPairLen == 4

PairFeInputs == {0, 1, 19}

PairUnused == twin = {} /\ altered = FALSE

\* The configurations under which input_fe meets its preconditions.
PairConfigs == {C \in Configs : input_fe_pre(C, 0)}

InitPair ==
    /\ InitEngineIn(PairConfigs, {FALSE})
    /\ twin = new(Ck).residue
    /\ altered = FALSE

PairInput(e) ==
    /\ ncalls < MaxPairLen
    /\ Called(step_fe(Ck, debug_assertions, Engine, e), "input_fe", e, <<e>>)
    /\ twin' = input_fe(Ck, twin, e).residue
    /\ UNCHANGED altered
    /\ UNCHANGED <<packedVars, sanityVars, hrpVars>>

PairAlter(e, e2) ==
    /\ ncalls < MaxPairLen
    /\ ~altered
    /\ e # e2
    /\ Called(step_fe(Ck, debug_assertions, Engine, e), "input_fe", e, <<e>>)
    /\ twin' = input_fe(Ck, twin, e2).residue
    /\ altered' = TRUE
    /\ UNCHANGED <<packedVars, sanityVars, hrpVars>>

---------------------------------------------------------------------------
(* SpecSanity: sanity_check on a configuration, before and after one bit   *)
(* of one of its generator shifts is flipped.                              *)

SanityUnused ==
    /\ sck = MkCk("PackedNull", 0, [i \in 1..5 |-> PackedNull], PackedNull)
    /\ flipped = <<>>
    /\ basePassed = FALSE
    /\ checked = <<>>

InitSanity ==
    /\ sck \in Configs
    /\ flipped = <<>>
    /\ basePassed = FALSE
    /\ checked = <<>>

RunSanityCheck ==
    /\ checked = <<>>
    /\ checked' = <<sanity_check(sck)>>
    /\ UNCHANGED <<sck, flipped, basePassed>>
    /\ UNCHANGED <<packedVars, engineVars, pairVars, hrpVars>>

\* Bit b of GENERATOR_SH[i] is flipped.
Corrupt(i, b) ==
    /\ flipped = <<>>
    /\ checked # <<>>
    /\ sck' = [sck EXCEPT !.GENERATOR_SH[i + 1] = BitXor(@, {b})]
    /\ flipped' = <<i, b>>
    /\ basePassed' = checked[1]
    /\ checked' = <<>>
    /\ UNCHANGED <<packedVars, engineVars, pairVars, hrpVars>>

---------------------------------------------------------------------------
(* SpecHrp: next() called again and again on a new HrpFe32Iter.            *)

\* The length of a prefix, and the calls of next() made after the first None.
MaxHrpLen == 2
MaxNones == 2

\* '!', '1', 'A', 'Z', 'a', '~'.
HrpBytes == {33, 49, 65, 90, 97, 126}

HrpSamples == UNION {[1..k -> HrpBytes] : k \in 0..MaxHrpLen}

HrpUnused ==
    /\ hrp = <<>>
    /\ high_iter = <<>>
    /\ low_iter = <<>>
    /\ out = <<>>
    /\ nones = 0

InitHrp ==
    /\ hrp \in HrpSamples
    /\ high_iter = HrpFe32Iter_new(hrp).high_iter
    /\ low_iter = HrpFe32Iter_new(hrp).low_iter
    /\ out = <<>>
    /\ nones = 0

CallNext ==
    /\ nones < MaxNones
    /\ LET n == next([high_iter |-> high_iter, low_iter |-> low_iter])
       IN  /\ high_iter' = n.high_iter
           /\ low_iter' = n.low_iter
           /\ out' = out \o n.item
           /\ nones' = IF n.item = <<>> THEN nones + 1 ELSE nones
    /\ UNCHANGED hrp
    /\ UNCHANGED <<packedVars, engineVars, pairVars, sanityVars>>

---------------------------------------------------------------------------
(* The specifications.                                                     *)

EngineUnused ==
    InitEngineIn({MkCk("PackedNull", 0, [i \in 1..5 |-> PackedNull], PackedNull)},
                 {FALSE})

Init ==
    /\ InitEngineIn(Configs, BOOLEAN)
    /\ PairUnused /\ PackedUnused /\ SanityUnused /\ HrpUnused

Next ==
    \/ \E e \in FeInputs : InputFe(e)
    \/ \E h \in HrpInputs : InputHrp(h)
    \/ InputTargetResidue
    \/ Verify

Spec == Init /\ [][Next]_vars

InitPairSpec == InitPair /\ PackedUnused /\ SanityUnused /\ HrpUnused

NextPair ==
    \/ \E e \in PairFeInputs : PairInput(e)
    \/ \E e \in PairFeInputs, e2 \in PairFeInputs : PairAlter(e, e2)

SpecPair == InitPairSpec /\ [][NextPair]_vars

InitPackedSpec == InitPacked /\ EngineUnused /\ PairUnused /\ SanityUnused /\ HrpUnused

NextPacked == CallMulByXThenAdd

SpecPacked == InitPackedSpec /\ [][NextPacked]_vars

InitSanitySpec == InitSanity /\ EngineUnused /\ PairUnused /\ PackedUnused /\ HrpUnused

NextSanity ==
    \/ RunSanityCheck
    \/ \E i \in 0..4 : \E b \in 0..(BITS(sck.ty) - 1) : Corrupt(i, b)

SpecSanity == InitSanitySpec /\ [][NextSanity]_vars

InitHrpSpec == InitHrp /\ EngineUnused /\ PairUnused /\ PackedUnused /\ SanityUnused

NextHrp == CallNext

SpecHrp == InitHrpSpec /\ [][NextHrp]_vars

---------------------------------------------------------------------------
(* The claims.                                                             *)

\* Every bit of v lies in the slots 0..len-1.
Confined(v, len) == \A b \in v : b < 5 * len

GeneratorConfined(C) ==
    \A i \in 1..5 : Confined(C.GENERATOR_SH[i], C.CHECKSUM_LENGTH)

\* The coefficient in slot n of v, read off its bits.
SlotValue(v, n) ==
    LET bit(i) == IF (5 * n + i) \in v THEN 2^i ELSE 0
    IN  bit(0) + bit(1) + bit(2) + bit(3) + bit(4)

\* C1 as stated: under any configuration that passes sanity_check with
\* CHECKSUM_LENGTH >= 1, a fresh engine fed M and then the checksum symbols
\* read off the residue that M and input_target_residue left ends on
\* TARGET_RESIDUE.
C1_RoundTrip_AsStated ==
    (verifier.done /\ Ck.CHECKSUM_LENGTH >= 1 /\ sanity_check(Ck))
        => verifier.residue = Ck.TARGET_RESIDUE

\* C1, amended: the round trip ends on TARGET_RESIDUE when, besides, the
\* five GENERATOR_SH values and TARGET_RESIDUE have no bit at or above
\* position 5 * CHECKSUM_LENGTH.
C1_RoundTrip ==
    (/\ verifier.done
     /\ Ck.CHECKSUM_LENGTH >= 1
     /\ GeneratorConfined(Ck)
     /\ Confined(Ck.TARGET_RESIDUE, Ck.CHECKSUM_LENGTH)
     /\ sanity_check(Ck))
        => verifier.residue = Ck.TARGET_RESIDUE

C1_Witness ==
    /\ verifier.done
    /\ sanity_check(Ck)
    /\ Ck.CHECKSUM_LENGTH = 6
    /\ GeneratorConfined(Ck)
    /\ Confined(Ck.TARGET_RESIDUE, Ck.CHECKSUM_LENGTH)
    /\ Len(fed) > 2 * Ck.CHECKSUM_LENGTH
    /\ residue # Ck.TARGET_RESIDUE
    /\ Cardinality(residue) > 5
    /\ verifier.residue = Ck.TARGET_RESIDUE

\* C2: input_fe(e) is one round of long division over GF(32). Under a
\* configuration that passes sanity_check, from a residue confined to the
\* slots 0..CHECKSUM_LENGTH-1, slot j of the new residue is (e if j = 0,
\* else the old slot j-1) xor d * g_j, with d the old top slot, g_j slot j
\* of GENERATOR_SH[0] and * the product of GF(2)[x]/(x^5 + x^3 + 1).
C2_LongDivision ==
    [][(/\ call'.op = "input_fe"
        /\ ncalls' = ncalls + 1
        /\ Ck.CHECKSUM_LENGTH >= 1
        /\ Confined(residue, Ck.CHECKSUM_LENGTH)
        /\ sanity_check(Ck))
          => \A j \in 0..(Ck.CHECKSUM_LENGTH - 1) :
                SlotValue(residue', j) =
                    XorU8(IF j = 0 THEN call'.fe ELSE SlotValue(residue, j - 1),
                          Gf32Mul(SlotValue(residue, Ck.CHECKSUM_LENGTH - 1),
                                  SlotValue(Ck.GENERATOR_SH[1], j)))]_vars

C2_Witness ==
    /\ call.op = "input_fe"
    /\ sanity_check(Ck)
    /\ GeneratorConfined(Ck)
    /\ Ck.CHECKSUM_LENGTH >= 2
    /\ ncalls >= 2
    /\ xn > 16
    /\ call.fe = 19

\* C7 as stated: under any configuration over u32, u64 or u128 that passes
\* sanity_check, no call on the engine breaks a precondition of
\* mul_by_x_then_add or unpack (read the other way round: where a call did,
\* sanity_check rejects the configuration).
C7_NoPreconditionBroken_AsStated ==
    (Ck.ty \in IntTypes /\ violated) => ~sanity_check(Ck)

\* C7, amended: no call on the engine breaks a precondition of
\* mul_by_x_then_add or unpack, and no debug assertion stops it, when,
\* besides, CHECKSUM_LENGTH >= 1 (read the other way round, as above).
C7_NoPreconditionBroken ==
    (Ck.ty \in IntTypes /\ Ck.CHECKSUM_LENGTH >= 1 /\ (violated \/ panicked))
        => ~sanity_check(Ck)

C7_Witness ==
    /\ Ck.ty \in IntTypes
    /\ sanity_check(Ck)
    /\ Ck.CHECKSUM_LENGTH = WIDTH(Ck.ty)
    /\ debug_assertions
    /\ ncalls >= 3
    /\ call.op = "input_target_residue"
    /\ ~violated

\* C8: over PackedNull with CHECKSUM_LENGTH 0 the residue stays the initial
\* ONE whatever is fed; unpack gives 0 for every slot and mul_by_x_then_add
\* returns 0 and leaves the vector as it was.
C8_NullResidueUnchanged ==
    (Ck.ty = "PackedNull" /\ Ck.CHECKSUM_LENGTH = 0)
        => /\ residue = PackedNull
           /\ residue = new(Ck).residue
           /\ xn = 0
           /\ \A n \in 0..3 : unpack(Ck.ty, residue, n) = 0
           /\ \A d \in 0..2, a \in FeInputs :
                 mul_by_x_then_add(Ck.ty, residue, d, a) = [self |-> residue, ret |-> 0]

C8_Witness ==
    /\ Ck.ty = "PackedNull"
    /\ Ck.CHECKSUM_LENGTH = 0
    /\ ncalls >= 3
    /\ Len(fed) >= 6
    /\ residue = PackedNull

\* C9: when 1 <= CHECKSUM_LENGTH <= WIDTH and the five GENERATOR_SH values
\* have no bit at or above position 5 * CHECKSUM_LENGTH, neither has the
\* residue, whatever has been fed.
C9_ResidueConfined ==
    (/\ Ck.ty \in IntTypes
     /\ 1 <= Ck.CHECKSUM_LENGTH
     /\ Ck.CHECKSUM_LENGTH <= WIDTH(Ck.ty)
     /\ GeneratorConfined(Ck))
        => Confined(residue, Ck.CHECKSUM_LENGTH)

C9_Witness ==
    /\ Ck.ty \in IntTypes
    /\ 1 <= Ck.CHECKSUM_LENGTH
    /\ Ck.CHECKSUM_LENGTH < WIDTH(Ck.ty)
    /\ GeneratorConfined(Ck)
    /\ ncalls >= 2
    /\ xn # 0
    /\ SlotValue(residue, Ck.CHECKSUM_LENGTH - 1) # 0

\* C10: under a configuration that passes sanity_check, with
\* 1 <= CHECKSUM_LENGTH <= WIDTH, generators confined to the checksum's
\* slots and a non-zero constant coefficient, two sequences of the same
\* length that differ in exactly one element leave different residues; so
\* not both reduce to TARGET_RESIDUE (read the other way round: where the
\* two residues agree, sanity_check rejects the configuration).
C10_SingleErrorDetected ==
    (/\ altered
     /\ 1 <= Ck.CHECKSUM_LENGTH
     /\ Ck.CHECKSUM_LENGTH <= WIDTH(Ck.ty)
     /\ GeneratorConfined(Ck)
     /\ unpack(Ck.ty, Ck.GENERATOR_SH[1], 0) # 0
     /\ (residue = twin \/ (residue = Ck.TARGET_RESIDUE /\ twin = Ck.TARGET_RESIDUE)))
        => ~sanity_check(Ck)

C10_Witness ==
    /\ altered
    /\ sanity_check(Ck)
    /\ Ck.CHECKSUM_LENGTH \in 1..2
    /\ GeneratorConfined(Ck)
    /\ unpack(Ck.ty, Ck.GENERATOR_SH[1], 0) # 0
    /\ Len(fed) >= Ck.CHECKSUM_LENGTH + 2
    /\ residue = Ck.TARGET_RESIDUE
    /\ twin # residue

\* C6: mul_by_x_then_add(degree, add) on a packed integer v, for
\* 1 <= degree <= WIDTH and add < 32, returns the old slot degree-1 and
\* leaves v with that slot cleared, shifted left by 5 within the type and
\* add in slot 0: slot j is the old slot j-1 for 1 <= j < degree and slot
\* degree, when there is one, is 0. On u32, 1 with degree 3 and add 5
\* returns 0 and leaves 37.
C6_MulByXThenAdd ==
    res.called =>
        LET v == arg.v
            d == arg.degree
            cleared == {b \in v : b \div 5 # d - 1}
        IN  /\ res.ret = SlotValue(v, d - 1)
            /\ res.self = ({b + 5 : b \in cleared} \cap (0..(BITS(arg.ty) - 1)))
                              \cup FromU8(arg.add)
            /\ SlotValue(res.self, 0) = arg.add
            /\ \A j \in 1..(d - 1) : SlotValue(res.self, j) = SlotValue(v, j - 1)
            /\ d < WIDTH(arg.ty) => SlotValue(res.self, d) = 0
            /\ (arg.ty = "u32" /\ v = {0} /\ d = 3 /\ arg.add = 5)
                  => (res.ret = 0 /\ res.self = {0, 2, 5})

C6_Witness ==
    /\ res.called
    /\ arg = [ty |-> "u32", v |-> {0}, degree |-> 3, add |-> 5]
    /\ res.ret = 0
    /\ AsU8(res.self) = 37
    /\ res.self \subseteq 0..7

\* C5 as stated: flipping any one bit, at a position below the type's width
\* in bits, of any one GENERATOR_SH entry of a configuration that passes
\* sanity_check makes sanity_check fail.
C5_CorruptionDetected_AsStated ==
    (flipped # <<>> /\ basePassed /\ checked # <<>>) => checked = <<FALSE>>

\* C5, amended: flipping one bit of one GENERATOR_SH entry of a
\* configuration that passes sanity_check makes sanity_check fail when the
\* bit's position is below 5 * WIDTH, that is, inside a slot.
C5_CorruptionDetected ==
    (/\ flipped # <<>>
     /\ basePassed
     /\ checked # <<>>
     /\ flipped[2] < 5 * WIDTH(sck.ty))
        => checked = <<FALSE>>

C5_Witness ==
    /\ flipped # <<>>
    /\ basePassed
    /\ flipped[1] = 4
    /\ flipped[2] = 5 * WIDTH(sck.ty) - 1
    /\ sck.ty = "u128"
    /\ checked = <<FALSE>>

\* The elements a prefix is due to yield: the high bits of its lower-cased
\* bytes, the separator, then their low bits.
Expected(h) ==
    LET b == lowercase_byte_iter(h)
        n == Len(b)
    IN  [i \in 1..(2 * n + 1) |->
            IF i <= n THEN b[i] \div 32
            ELSE IF i = n + 1 THEN Fe32_Q
            ELSE b[i - n - 1] % 32]

\* C3: next() on a new HrpFe32Iter yields exactly 2n+1 elements before the
\* first None: b_i >> 5 for each lower-cased byte, the separator, then
\* b_i & 0x1f for each byte.
C3_SequencerOutput ==
    /\ Len(out) <= Len(Expected(hrp))
    /\ out = SubSeq(Expected(hrp), 1, Len(out))
    /\ nones > 0 => out = Expected(hrp)

C3_Witness ==
    /\ nones = 1
    /\ Len(hrp) = 2
    /\ hrp[1] = 90
    /\ out = <<3, 1, 0, 26, 17>>

\* C4: at every point size_hint() is (r, Some(r)) with r the number of
\* elements next() will still yield (stated for the prefixes an Hrp can
\* hold, those of at least one byte).
C4_SizeHintExact ==
    Len(hrp) >= 1 =>
        LET r == Len(Expected(hrp)) - Len(out)
        IN  size_hint([high_iter |-> high_iter, low_iter |-> low_iter]) = <<r, <<r>>>>

=============================================================================
